---- MODULE Spec2Model ----
(***************************************************************************)
(* Model of the payment-slip verification of the PFP storefront:           *)
(*   src/src/utils/emvco.js   parseEMV, verifyCRC, crc16ccitt              *)
(*   src/src/server.js        POST /checkout (slip block, stock check,     *)
(*                            order creation), cartTotal, toCents, addLog  *)
(*                                                                         *)
(* Strings are sequences of one-character strings.  JavaScript null is the *)
(* one-element sequence Null, which no string of characters equals.        *)
(***************************************************************************)
EXTENDS Integers, Sequences, FiniteSets, TLC

VARIABLES
    PROMPTPAY_ID,   \* server.js:247, read once from the environment
    stockQty,       \* Product.stockQty, per product id
    orders,         \* Order rows created so far
    activityLog,    \* ActivityLog rows written by addLog
    pc,             \* position of the POST /checkout handler
    cart,           \* req.session.cart
    total,          \* cartTotal(cart), in cents
    shippingAddressId,
    slipFile,       \* req.file || null : TRUE when a slip was uploaded
    payload,        \* result of decodeQR(...).catch(() => null)
    crc,            \* verifyCRC(payload)
    tlv,            \* parseEMV(payload)
    checks,         \* accountMatches / amountMatches / currency / currencyOK
    slipStatus,
    slipReason,
    calls,          \* which of verifyCRC / parseEMV ran in this request
    thrown,         \* an exception was raised inside the inner try block
    emvIn,          \* the argument of a direct call of parseEMV / verifyCRC
    emvOut,         \* what parseEMV(emvIn.text) returned
    emvCrc,         \* what verifyCRC(emvIn.text) returned
    history,        \* the calls of parseEMV / verifyCRC made so far, in order
    stack,          \* the parseEMV calls under way, innermost last
    stockMovements, \* StockMovement rows
    approvals,      \* payment/approve requests that have read their order
    adminCount,     \* admin requests received so far
    conns,          \* the event-stream requests, per client
    sseClients,     \* the registry of stock-stream clients
    sseOrderClients \* the registry of order-status-stream clients

vars == << PROMPTPAY_ID, stockQty, orders, activityLog, pc, cart, total,
           shippingAddressId, slipFile, payload, crc, tlv, checks,
           slipStatus, slipReason, calls, thrown, emvIn, emvOut, emvCrc,
           history, stack, stockMovements, approvals, adminCount,
           conns, sseClients, sseOrderClients >>

\* the state of the POST /checkout handler and of the database
handlerVars == << PROMPTPAY_ID, stockQty, orders, activityLog, pc, cart, total,
                  shippingAddressId, slipFile, payload, crc, tlv, checks,
                  slipStatus, slipReason, calls, thrown >>

\* the state of a direct call of the emvco.js functions
emvVars == << emvIn, emvOut, emvCrc >>

\* the record of a series of calls of the emvco.js functions
callVars == << history >>

\* the stock ledger and the admin requests under way
shopVars == << stockMovements, approvals, adminCount >>

\* the event-stream connections and registries
sseVars == << conns, sseClients, sseOrderClients >>

\* everything but the state of the POST /checkout handler
notHandlerVars == << emvVars, callVars, stack, shopVars, sseVars >>

\* everything but the state of a direct call
notEmvVars == << handlerVars, callVars, stack, shopVars, sseVars >>

\* everything but the record of a series of calls
notCallVars == << handlerVars, emvVars, stack, shopVars, sseVars >>

\* everything but a parseEMV call followed pass by pass
notLoopVars == << handlerVars, callVars, shopVars, sseVars >>

\* everything but the database, the session and the admin requests
notShopVars == << emvVars, callVars, stack, sseVars >>

\* everything but the event streams
notSseVars == << handlerVars, emvVars, callVars, stack, shopVars >>

-----------------------------------------------------------------------------
(* Characters and JavaScript string primitives                              *)

Null == << "null" >>

MaxClients == 2

Clients == 1..MaxClients

\* a client that has made no event-stream request
NoConn == [ kind |-> "none", at |-> "none", open |-> FALSE, onClose |-> FALSE,
            late |-> FALSE ]

\* no event stream was requested: both registries are empty
SseIdle ==
    /\ conns = [ c \in Clients |-> NoConn ]
    /\ sseClients = {}
    /\ sseOrderClients = {}

DecDigits == << "0","1","2","3","4","5","6","7","8","9" >>

HexDigits == << "0","1","2","3","4","5","6","7","8","9",
                "A","B","C","D","E","F" >>

HexDigitsLower == << "0","1","2","3","4","5","6","7","8","9",
                     "a","b","c","d","e","f" >>

IsDigit(c) == c \in { DecDigits[k] : k \in 1..10 }

DigitVal(c) == (CHOOSE k \in 1..10 : DecDigits[k] = c) - 1

IsHexChar(c) == c \in { HexDigits[k] : k \in 1..16 } \cup { HexDigitsLower[k] : k \in 1..16 }

HexVal(c) == (CHOOSE k \in 1..16 : HexDigits[k] = c \/ HexDigitsLower[k] = c) - 1

LowerLetters == << "a","b","c","d","e","f","h","s","t","u" >>

UpperLetters == << "A","B","C","D","E","F","H","S","T","U" >>

\* String.prototype.toUpperCase on one character of the model's alphabet
UpperChar(c) ==
    IF c \in { LowerLetters[k] : k \in 1..Len(LowerLetters) }
    THEN UpperLetters[CHOOSE k \in 1..Len(LowerLetters) : LowerLetters[k] = c]
    ELSE c

toUpperCase(s) == [ k \in 1..Len(s) |-> UpperChar(s[k]) ]

Max(a, b) == IF a >= b THEN a ELSE b

Min(a, b) == IF a <= b THEN a ELSE b

\* the second argument taken as a length, as String.prototype.substr does
slice_AsSubstr(s, from, to) ==
    LET n == Len(s)
        f == IF from < 0 THEN Max(n + from, 0) ELSE Min(from, n)
        t == Min(f + Max(to, 0), n)
    IN  IF f < t THEN SubSeq(s, f + 1, t) ELSE << >>

\* String.prototype.slice(from, to) with integer arguments (0-based, to exclusive)
slice(s, from, to) ==
    LET n == Len(s)
        f == IF from < 0 THEN Max(n + from, 0) ELSE Min(from, n)
        t == IF to < 0 THEN Max(n + to, 0) ELSE Min(to, n)
    IN  IF f < t THEN SubSeq(s, f + 1, t) ELSE << >>

\* the last position in place of the first, as lastIndexOf gives
indexOf_Last(s, needle) ==
    LET hits == { k \in 0..(Len(s) - Len(needle)) :
                    SubSeq(s, k + 1, k + Len(needle)) = needle }
    IN  IF hits = {} THEN -1
        ELSE CHOOSE k \in hits : \A j \in hits : k >= j

\* String.prototype.indexOf(needle): first 0-based position, or -1
indexOf(s, needle) ==
    LET hits == { k \in 0..(Len(s) - Len(needle)) :
                    SubSeq(s, k + 1, k + Len(needle)) = needle }
    IN  IF hits = {} THEN -1
        ELSE CHOOSE k \in hits : \A j \in hits : k <= j

\* String.prototype.includes(needle)
includes(s, needle) == indexOf(s, needle) >= 0

\* The longest prefix of s made of characters satisfying the digit test
RECURSIVE DecPrefixLen(_)
DecPrefixLen(s) ==
    IF s = << >> \/ ~IsDigit(Head(s)) THEN 0 ELSE 1 + DecPrefixLen(Tail(s))

RECURSIVE HexPrefixLen(_)
HexPrefixLen(s) ==
    IF s = << >> \/ ~IsHexChar(Head(s)) THEN 0 ELSE 1 + HexPrefixLen(Tail(s))

RECURSIVE DecValue(_)
DecValue(s) ==
    IF s = << >> THEN 0
    ELSE 10 * DecValue(SubSeq(s, 1, Len(s) - 1)) + DigitVal(s[Len(s)])

RECURSIVE HexValue(_)
HexValue(s) ==
    IF s = << >> THEN 0
    ELSE 16 * HexValue(SubSeq(s, 1, Len(s) - 1)) + HexVal(s[Len(s)])

\* A JavaScript number that is either NaN or an integer
NaN == [ nan |-> TRUE, v |-> 0 ]

Num(v) == [ nan |-> FALSE, v |-> v ]

\* parseInt reading one digit only
parseInt10_FirstDigit(s) ==
    IF s = << >> \/ ~IsDigit(Head(s)) THEN NaN ELSE Num(DigitVal(Head(s)))

\* parseInt(s, 10): optional sign, then the leading decimal digits; NaN if none
parseInt10(s) ==
    LET neg  == s # << >> /\ Head(s) = "-"
        body == IF s # << >> /\ Head(s) \in { "-", "+" } THEN Tail(s) ELSE s
        n    == DecPrefixLen(body)
    IN  IF n = 0 THEN NaN
        ELSE Num((IF neg THEN -1 ELSE 1) * DecValue(SubSeq(body, 1, n)))

\* parseInt(s, 16): optional sign, optional 0x, then the leading hex digits
parseInt16(s) ==
    LET neg  == s # << >> /\ Head(s) = "-"
        b0   == IF s # << >> /\ Head(s) \in { "-", "+" } THEN Tail(s) ELSE s
        body == IF Len(b0) >= 2 /\ b0[1] = "0" /\ b0[2] \in { "x", "X" }
                THEN SubSeq(b0, 3, Len(b0)) ELSE b0
        n    == HexPrefixLen(body)
    IN  IF n = 0 THEN NaN
        ELSE Num((IF neg THEN -1 ELSE 1) * HexValue(SubSeq(body, 1, n)))

-----------------------------------------------------------------------------
(* src/src/utils/emvco.js                                                   *)

\* only the two templates PromptPay uses are expanded
CompositeTags_26And29 == { << "2","6" >>, << "2","9" >> }

CompositeTags == { << "2","6" >>, << "2","7" >>, << "2","8" >>,
                   << "2","9" >>, << "3","0" >>, << "3","1" >>,
                   << "3","2" >> }

EmptyMap == << >>

\* an entry already present is kept
Put_KeepFirst(out, tag, node) ==
    [ k \in (DOMAIN out) \cup { tag } |->
        IF k \in DOMAIN out THEN out[k] ELSE node ]

\* out[tag] = node
Put(out, tag, node) ==
    [ k \in (DOMAIN out) \cup { tag } |-> IF k = tag THEN node ELSE out[k] ]

\* a stored value: a plain string, or { raw, sub } for a composite tag
StringNode(val) == [ type |-> "string", raw |-> val, sub |-> EmptyMap ]

ObjectNode(val, sub) == [ type |-> "object", raw |-> val, sub |-> sub ]

RECURSIVE parseLoop(_, _, _)
RECURSIVE parseEMV(_)

\* the while loop of parseEMV, entered with cursor i and mapping out
parseLoop(s, i, out) ==
    IF ~(i < Len(s)) THEN out
    ELSE
      LET tag  == slice(s, i, i + 2)
          len  == parseInt10(slice(s, i + 2, i + 4))
          i4   == i + 4
      IN  IF len.nan
          THEN \* slice(i, NaN) is empty and i becomes NaN: the loop exits
               Put(out, tag,
                   IF tag \in CompositeTags
                   THEN ObjectNode(<< >>, parseEMV(<< >>))
                   ELSE StringNode(<< >>))
          ELSE
            LET val  == slice(s, i4, i4 + len.v)
                node == IF tag \in CompositeTags
                        THEN ObjectNode(val, parseEMV(val))
                        ELSE StringNode(val)
            IN  parseLoop(s, i4 + len.v, Put(out, tag, node))

parseEMV(s) == parseLoop(s, 0, EmptyMap)

\* the passes of the while loop entered with cursor i, in order: the cursor
\* at the start of the pass, and the tag, len and val the pass computes
RECURSIVE parseSteps(_, _)
parseSteps(s, i) ==
    IF ~(i < Len(s)) THEN << >>
    ELSE
      LET tag == slice(s, i, i + 2)
          len == parseInt10(slice(s, i + 2, i + 4))
          i4  == i + 4
      IN  IF len.nan
          THEN << [ at |-> i, tag |-> tag, len |-> len, val |-> << >> ] >>
          ELSE << [ at |-> i, tag |-> tag, len |-> len,
                    val |-> slice(s, i4, i4 + len.v) ] >>
               \o parseSteps(s, i4 + len.v)

CrcInit == 65535

CrcPoly == 4129

CrcTopBit == 32768

CrcMask == 65535

Pow2 == << 1, 2, 4, 8, 16, 32, 64, 128, 256, 512, 1024, 2048, 4096, 8192,
           16384, 32768, 65536 >>

\* bits k..0 of the bitwise exclusive or of two naturals below 2^17
RECURSIVE XorBits(_, _, _)
XorBits(a, b, k) ==
    IF k < 0 THEN 0
    ELSE ((((a \div Pow2[k + 1]) + (b \div Pow2[k + 1])) % 2) * Pow2[k + 1])
         + XorBits(a, b, k - 1)

Xor(a, b) == XorBits(a, b, 16)

\* the inner j loop body testing the lowest bit instead of 0x8000
crcBit_TestLowBit(c) ==
    IF c % 2 = 1
    THEN Xor(c * 2, CrcPoly) % (CrcMask + 1)
    ELSE (c * 2) % (CrcMask + 1)

\* one pass of the inner j loop body
crcBit(c) ==
    IF (c \div CrcTopBit) % 2 = 1
    THEN Xor(c * 2, CrcPoly) % (CrcMask + 1)
    ELSE (c * 2) % (CrcMask + 1)

\* the j loop: n passes
RECURSIVE crcBits(_, _)
crcBits(c, n) ==
    IF n = 0 THEN c
    ELSE LET c1 == crcBit(c) IN IF c1 >= 0 THEN crcBits(c1, n - 1) ELSE c1

crcByte(c, byte) ==
    \* crc ^= (byte << 8); only the low 16 bits survive the masking below,
    \* NaN << 8 is 0
    LET b  == IF byte.nan THEN 0 ELSE byte.v % 256
        c0 == Xor(c, b * 256)
    IN  IF c0 >= 0 THEN crcBits(c0, 8) ELSE c0

RECURSIVE crcLoop(_, _, _)
crcLoop(hex, i, c) ==
    IF ~(i < Len(hex)) THEN c
    ELSE LET c1 == crcByte(c, parseInt16(slice(hex, i, i + 2)))
         IN  IF c1 >= 0 THEN crcLoop(hex, i + 2, c1) ELSE c1

\* Number.prototype.toString(16) of a natural number
RECURSIVE toString16(_)
toString16(c) ==
    IF c < 16 THEN << HexDigitsLower[c + 1] >>
    ELSE toString16(c \div 16) \o << HexDigitsLower[(c % 16) + 1] >>

\* String.prototype.padStart(4, '0')
RECURSIVE padStart4(_)
padStart4(s) == IF Len(s) >= 4 THEN s ELSE padStart4(<< "0" >> \o s)

\* crc.toString(16) without the padding
toHex4_NoPad(c) == toString16(c)

\* crc.toString(16).padStart(4, '0')
toHex4(c) == padStart4(toString16(c))

crc16ccitt(hex) == toHex4(crcLoop(hex, 0, CrcInit))

CrcMarker == << "6","3","0","4" >>

\* verifyCRC without the early return for a missing marker
verifyCRC_NoGuard(p) ==
    LET idx       == indexOf(p, CrcMarker)
        dataNoCRC == slice(p, 0, idx + 4)
        actual    == toUpperCase(slice(p, idx + 4, idx + 8))
        expected  == toUpperCase(crc16ccitt(dataNoCRC))
    IN  [ ok |-> (expected = actual), expected |-> expected, actual |-> actual ]

verifyCRC(p) ==
    LET idx == indexOf(p, CrcMarker)
    IN  IF idx < 0 THEN [ ok |-> FALSE, expected |-> Null, actual |-> Null ]
        ELSE
          LET dataNoCRC == slice(p, 0, idx + 4)
              actual    == toUpperCase(slice(p, idx + 4, idx + 8))
              expected  == toUpperCase(crc16ccitt(dataNoCRC))
          IN  [ ok |-> (expected = actual), expected |-> expected, actual |-> actual ]

-----------------------------------------------------------------------------
(* JavaScript Number(string), as an exact decimal num / 10^scale            *)

RECURSIVE Pow10(_)
Pow10(k) == IF k <= 0 THEN 1 ELSE 10 * Pow10(k - 1)

NumNaN == [ nan |-> TRUE, num |-> 0, scale |-> 0 ]

Dec(num, scale) == [ nan |-> FALSE, num |-> num, scale |-> scale ]

\* value of a string of digits of the given radix (2, 8 or 16), NaN otherwise
RadixLiteral(s, radix) ==
    IF s # << >> /\ \A k \in 1..Len(s) : IsHexChar(s[k]) /\ HexVal(s[k]) < radix
    THEN LET RECURSIVE val(_)
             val(t) == IF t = << >> THEN 0
                       ELSE radix * val(SubSeq(t, 1, Len(t) - 1)) + HexVal(t[Len(t)])
         IN  Dec(val(s), 0)
    ELSE NumNaN

\* StrDecimalLiteral: sign? (digits [. digits?] | . digits) ([eE] sign? digits)?
DecimalLiteral(s) ==
    LET neg   == s # << >> /\ Head(s) = "-"
        body  == IF s # << >> /\ Head(s) \in { "-", "+" } THEN Tail(s) ELSE s
        ip    == DecPrefixLen(body)
        r1    == SubSeq(body, ip + 1, Len(body))
        dot   == r1 # << >> /\ Head(r1) = "."
        fp    == IF dot THEN DecPrefixLen(Tail(r1)) ELSE 0
        r2    == IF dot THEN SubSeq(r1, fp + 2, Len(r1)) ELSE r1
        mant  == DecValue(SubSeq(body, 1, ip) \o (IF dot THEN SubSeq(r1, 2, fp + 1) ELSE << >>))
        hasE  == r2 # << >> /\ Head(r2) \in { "e", "E" }
        e0    == IF hasE THEN Tail(r2) ELSE << >>
        eneg  == e0 # << >> /\ Head(e0) = "-"
        ebody == IF e0 # << >> /\ Head(e0) \in { "-", "+" } THEN Tail(e0) ELSE e0
        eok   == ebody # << >> /\ DecPrefixLen(ebody) = Len(ebody)
        e     == IF hasE /\ eok THEN (IF eneg THEN -1 ELSE 1) * DecValue(ebody) ELSE 0
        sgn   == IF neg THEN -1 ELSE 1
    IN  IF ip + fp = 0 THEN NumNaN
        ELSE IF r2 # << >> /\ ~(hasE /\ eok) THEN NumNaN
        ELSE IF fp - e >= 0 THEN Dec(sgn * mant, fp - e)
        ELSE Dec(sgn * mant * Pow10(e - fp), 0)

Number(s) ==
    IF s = << >> THEN Dec(0, 0)
    ELSE IF Len(s) >= 2 /\ s[1] = "0" /\ s[2] \in { "b", "B" }
         THEN RadixLiteral(SubSeq(s, 3, Len(s)), 2)
    ELSE IF Len(s) >= 2 /\ s[1] = "0" /\ s[2] \in { "o", "O" }
         THEN RadixLiteral(SubSeq(s, 3, Len(s)), 8)
    ELSE IF Len(s) >= 2 /\ s[1] = "0" /\ s[2] \in { "x", "X" }
         THEN RadixLiteral(SubSeq(s, 3, Len(s)), 16)
    ELSE DecimalLiteral(s)

Abs(x) == IF x < 0 THEN -x ELSE x

\* the tolerance test with <= in place of <
WithinTolerance_Inclusive(amount, totalCents) ==
    /\ ~amount.nan
    /\ Abs(100 * amount.num - totalCents * Pow10(amount.scale)) <= Pow10(amount.scale)

\* Math.abs(amount - total) < 0.01, with total in cents; false for NaN
WithinTolerance(amount, totalCents) ==
    /\ ~amount.nan
    /\ Abs(100 * amount.num - totalCents * Pow10(amount.scale)) < Pow10(amount.scale)

-----------------------------------------------------------------------------
(* Inputs: uploaded slips, carts, configuration                             *)

MaxOrders == 1

\* tag + 2-digit zero-padded length + value
Field(tag, val) ==
    tag \o << DecDigits[(Len(val) \div 10) + 1], DecDigits[(Len(val) % 10) + 1] >> \o val

ExpectedId == << "1","2","3","4" >>

OtherId == << "5","6","7","8" >>

T29(sub) == Field(<< "2","9" >>, sub)

T26(sub) == Field(<< "2","6" >>, sub)

Sub01(id) == Field(<< "0","1" >>, id)

TemplateCore == { << >>, T29(Sub01(ExpectedId)), T29(Sub01(OtherId)) }

TemplateMore ==
    { T26(Sub01(ExpectedId)),
      T29(Sub01(OtherId)) \o T26(Sub01(ExpectedId)),
      T26(Sub01(ExpectedId)) \o T29(Sub01(OtherId)),
      T29(Field(<< "2","7" >>, ExpectedId)),
      T29(Field(<< "9","9" >>, << "0" >> \o ExpectedId \o << "0" >>)),
      T29(<< >>) \o T26(Sub01(ExpectedId)) }

F54(v) == Field(<< "5","4" >>, v)

AmountCore == { << >>, F54(<< "1","0","0" >>), F54(<< "1","0","1" >>) }

AmountMore ==
    { F54(<< >>), F54(<< "1","E","2" >>), F54(<< "A","B","C" >>),
      F54(<< "0","b","1","1" >>), F54(<< "1","0","0",".","5","0" >>),
      F54(<< "1","0","0",".","0","0" >>) }

F58(v) == Field(<< "5","8" >>, v)

CurrencyCore == { << >>, F58(<< "7","6","4" >>), F58(<< "8","4","0" >>) }

CurrencyMore ==
    { F58(<< >>), F58(<< "T","H" >>), F58(<< "T","H","B" >>),
      F58(<< "t","h","b" >>), F58(<< "U","S" >>) }

\* the CRC trailer a QR generator appends: marker + checksum of what precedes
WithCRC(body) == body \o CrcMarker \o toUpperCase(crc16ccitt(body \o CrcMarker))

WithLowerCRC(body) == body \o CrcMarker \o crc16ccitt(body \o CrcMarker)

WithWrongCRC(body) ==
    LET good == toUpperCase(crc16ccitt(body \o CrcMarker))
    IN  body \o CrcMarker \o
        (IF good = << "0","0","0","0" >> THEN << "0","0","0","1" >> ELSE << "0","0","0","0" >>)

WithShortCRC(body) == body \o CrcMarker \o SubSeq(toUpperCase(crc16ccitt(body \o CrcMarker)), 1, 2)

GoodTemplate == T29(Sub01(ExpectedId))

GoodAmount == F54(<< "1","0","0" >>)

GoodCurrency == F58(<< "7","6","4" >>)

\* the good payload with one field left out or changed, and the empty body
CoreBodies ==
    { t \o GoodAmount \o GoodCurrency : t \in TemplateCore }
    \cup { GoodTemplate \o a \o GoodCurrency : a \in AmountCore }
    \cup { GoodTemplate \o GoodAmount \o c : c \in CurrencyCore }
    \cup { << >> }

MoreBodies ==
    { t \o GoodAmount \o GoodCurrency : t \in TemplateMore }
    \cup { GoodTemplate \o a \o GoodCurrency : a \in AmountMore }
    \cup { GoodTemplate \o GoodAmount \o c : c \in CurrencyMore }

GoodBody == GoodTemplate \o GoodAmount \o GoodCurrency

\* what decodeQR can resolve to: the text of the QR code on the slip, or ''
Payloads ==
    { WithCRC(b) : b \in CoreBodies \cup MoreBodies }
    \cup { WithWrongCRC(b) : b \in { GoodBody, << >> } }
    \cup { WithLowerCRC(GoodBody), WithShortCRC(GoodBody), GoodBody,
           << >>, << "G" >>, << "5","4" >>, << "h","t","t","p",":","/","/","x" >> }

PromptpayIds == { << >>, ExpectedId }

Products == { 1, 2 }

\* Product.priceCents
priceCents == ( 1 :> 10000 ) @@ ( 2 :> 10001 )

\* session carts: toBaht(priceCents) is kept as cents
Carts ==
    { << >> } \cup
    { << [ id |-> p, qty |-> 1, price |-> priceCents[p] ] >> : p \in Products }
    \cup { << [ id |-> 1, qty |-> 2, price |-> priceCents[1] ] >> }

RECURSIVE cartTotal(_)
cartTotal(c) ==
    IF c = << >> THEN 0 ELSE Head(c).qty * Head(c).price + cartTotal(Tail(c))

\* Math.round(Number(baht) * 100) of an amount kept in cents
toCents(cents) == cents

-----------------------------------------------------------------------------
(* POST /checkout                                                            *)

Undefined == [ type |-> "undefined" ]

NoReason == [ kind |-> "null" ]

Text(t) == [ kind |-> "text", text |-> t ]

\* JSON.stringify({ crc, accountMatches, amountMatches, currency })
Json(c, acc, amt, cur) ==
    [ kind |-> "json", crc |-> c, accountMatches |-> acc, amountMatches |-> amt,
      currency |-> cur ]

Terminal == { "idle", "redirected", "badRequest", "done", "error" }

\* the shape test without the ^ and $ anchors: one hex character suffices
ShapeOK_NoAnchors(p) ==
    /\ p # Null
    /\ p # << >>
    /\ { k \in 1..Len(p) : IsHexChar(p[k]) } # {}

\* /^[0-9A-F]+$/i.test(payload), after the truthiness test
ShapeOK(p) ==
    /\ p # Null
    /\ p # << >>
    /\ { k \in 1..Len(p) : ~IsHexChar(p[k]) } = {}

\* no direct call of the emvco.js functions is under way
NoInput == [ built |-> FALSE, fields |-> << >>, text |-> << >> ]

\* a call that has not been made, and one that has returned v
NotCalled == [ called |-> FALSE, result |-> << >> ]

Returned(v) == [ called |-> TRUE, result |-> v ]

Init ==
    /\ PROMPTPAY_ID \in PromptpayIds
    /\ stockQty = [ p \in Products |-> 1 ]
    /\ orders = << >>
    /\ activityLog = << >>
    /\ pc = "idle"
    /\ cart = << >>
    /\ total = 0
    /\ shippingAddressId = 0
    /\ slipFile = FALSE
    /\ payload = Null
    /\ crc = Undefined
    /\ tlv = Undefined
    /\ checks = Undefined
    /\ slipStatus = "PENDING"
    /\ slipReason = NoReason
    /\ calls = {}
    /\ thrown = FALSE
    /\ emvIn = NoInput
    /\ emvOut = NotCalled
    /\ emvCrc = NotCalled
    /\ history = << >>
    /\ stack = << >>
    /\ stockMovements = << >>
    /\ approvals = << >>
    /\ adminCount = 0
    /\ SseIdle

\* a request arrives with session cart c and, when f, an uploaded slip
RequestWith(c, f) ==
    /\ pc \in Terminal
    /\ Len(orders) < MaxOrders
    /\ cart' = c
    /\ total' = cartTotal(c)
    /\ slipFile' = f
    /\ pc' = IF c = << >> THEN "redirected" ELSE "address"
    /\ shippingAddressId' = 0
    /\ payload' = Null
    /\ crc' = Undefined
    /\ tlv' = Undefined
    /\ checks' = Undefined
    /\ slipStatus' = "PENDING"
    /\ slipReason' = NoReason
    /\ calls' = {}
    /\ thrown' = FALSE
    /\ UNCHANGED << PROMPTPAY_ID, stockQty, orders, activityLog >>
    /\ UNCHANGED notHandlerVars

\* a request arrives: the session cart and the multipart upload
Request == \E c \in Carts, f \in BOOLEAN : RequestWith(c, f)

slipLocals == << payload, crc, tlv, checks, slipStatus, slipReason, calls, thrown >>

db == << PROMPTPAY_ID, stockQty, orders, activityLog >>

\* addressId names an address of the user, or a complete new address is given
AddressAccepted ==
    /\ pc = "address"
    /\ shippingAddressId' = 1
    /\ pc' = "slip"
    /\ UNCHANGED << db, cart, total, slipFile, slipLocals >>
    /\ UNCHANGED notHandlerVars

\* addressId not found, or the address fields are incomplete: 400
AddressRejected ==
    /\ pc = "address"
    /\ pc' = "badRequest"
    /\ UNCHANGED << db, cart, total, shippingAddressId, slipFile, slipLocals >>
    /\ UNCHANGED notHandlerVars

\* JavaScript truthiness of a stored value: objects and non-empty strings
Truthy(node) == node.type = "object" \/ node.raw # << >>

\* tlv[tag]?.sub
SubOf(t, tag) ==
    IF tag \in DOMAIN t /\ t[tag].type = "object"
    THEN [ defined |-> TRUE, map |-> t[tag].sub ]
    ELSE [ defined |-> FALSE, map |-> EmptyMap ]

\* the two templates tried in the opposite order
merchantTemplate_26First(t) ==
    IF SubOf(t, << "2","6" >>).defined THEN SubOf(t, << "2","6" >>)
    ELSE SubOf(t, << "2","9" >>)

\* const m = tlv['29']?.sub || tlv['26']?.sub || null   (m is null iff ~defined)
merchantTemplate(t) ==
    IF SubOf(t, << "2","9" >>).defined THEN SubOf(t, << "2","9" >>)
    ELSE SubOf(t, << "2","6" >>)

\* const amount = tlv['54'] ? Number(tlv['54']) : null
amountOf(t) ==
    IF << "5","4" >> \in DOMAIN t /\ Truthy(t[<< "5","4" >>])
    THEN [ null |-> FALSE,
           n |-> IF t[<< "5","4" >>].type = "object" THEN NumNaN
                 ELSE Number(t[<< "5","4" >>].raw) ]
    ELSE [ null |-> TRUE, n |-> NumNaN ]

\* const currency = (tlv['58'] || '').toString().toUpperCase()
currencyOf(t) ==
    IF << "5","8" >> \in DOMAIN t /\ Truthy(t[<< "5","8" >>])
    THEN toUpperCase(t[<< "5","8" >>].raw)
    ELSE << >>

\* expectedPromptpay ? (m && Object.values(m).some(...)) : true
\* the result is true, false or null (m && ... with m null)
accountMatches(expectedPromptpay, m) ==
    IF expectedPromptpay # << >>
    THEN IF ~m.defined THEN "null"
         ELSE IF \E k \in DOMAIN m.map :
                    /\ m.map[k].type = "string"
                    /\ includes(m.map[k].raw, expectedPromptpay)
              THEN "true" ELSE "false"
    ELSE "true"

\* amount == null ? true : Math.abs(amount - Number(total)) < 0.01
amountMatches(amount, totalCents) ==
    IF amount.null THEN TRUE ELSE WithinTolerance(amount.n, totalCents)

\* !currency || currency === 'TH' || currency === 'THB' || currency === '764'
currencyOK(currency) ==
    \/ currency = << >>
    \/ currency = << "T","H" >>
    \/ currency = << "T","H","B" >>
    \/ currency = << "7","6","4" >>

\* the verdict without the CRC conjunct
verified_NoCrc(crcOk, acc, amt, curOK) == acc = "true" /\ amt /\ curOK

\* if (crc.ok && accountMatches && amountMatches && currencyOK)
verified(crcOk, acc, amt, curOK) == crcOk /\ acc = "true" /\ amt /\ curOK

\* if (!slipFile) { REVIEW, 'No slip attached' }
NoSlip ==
    /\ pc = "slip"
    /\ ~slipFile
    /\ slipStatus' = "REVIEW"
    /\ slipReason' = Text("No slip attached")
    /\ pc' = "tx"
    /\ UNCHANGED << db, cart, total, shippingAddressId, slipFile, payload, crc, tlv,
                    checks, calls, thrown >>
    /\ UNCHANGED notHandlerVars

\* const payload = await decodeQR(slipFile.path).catch(() => null)
DecodeQR ==
    /\ pc = "slip"
    /\ slipFile
    /\ \E p \in Payloads \cup { Null } : payload' = p
    /\ pc' = "shape"
    /\ UNCHANGED << db, cart, total, shippingAddressId, slipFile, crc, tlv, checks,
                    slipStatus, slipReason, calls, thrown >>
    /\ UNCHANGED notHandlerVars

\* else branch of if (payload && /^[0-9A-F]+$/i.test(payload))
ShapeReject ==
    /\ pc = "shape"
    /\ ~ShapeOK(payload)
    /\ slipStatus' = "REVIEW"
    /\ slipReason' = Text("QR not found or invalid")
    /\ pc' = "tx"
    /\ UNCHANGED << db, cart, total, shippingAddressId, slipFile, payload, crc, tlv,
                    checks, calls, thrown >>
    /\ UNCHANGED notHandlerVars

\* const crc = verifyCRC(payload)
\* the value paired with p in a set of << argument, result >> pairs
Lookup(table, p) == (CHOOSE t \in table : t[1] = p)[2]

\* verifyCRC(payload) and parseEMV(payload) for each text a slip can decode
\* to, computed once
verifyCRCOf == { << p, verifyCRC(p) >> : p \in Payloads }

parseEMVOf == { << p, parseEMV(p) >> : p \in Payloads }

\* const crc = verifyCRC(payload)
RunVerifyCRC ==
    /\ pc = "shape"
    /\ ShapeOK(payload)
    /\ crc' = Lookup(verifyCRCOf, payload)
    /\ calls' = calls \cup { "verifyCRC" }
    /\ pc' = "parse"
    /\ UNCHANGED << db, cart, total, shippingAddressId, slipFile, payload, tlv, checks,
                    slipStatus, slipReason, thrown >>
    /\ UNCHANGED notHandlerVars

\* const tlv = parseEMV(payload)
RunParseEMV ==
    /\ pc = "parse"
    /\ pc' = "compare"
    /\ tlv' = Lookup(parseEMVOf, payload)
    /\ calls' = calls \cup { "parseEMV" }
    /\ UNCHANGED << db, cart, total, shippingAddressId, slipFile, payload, crc, checks,
                    slipStatus, slipReason, thrown >>
    /\ UNCHANGED notHandlerVars

\* m, amount, currency, accountMatches, amountMatches, currencyOK
\* amountOf(parseEMV(payload)) for each text a slip can decode to, computed
\* once: tlv is parseEMV(payload) when the comparison runs
amountOfTlv == { << p, amountOf(parseEMV(p)) >> : p \in Payloads }

Compare ==
    /\ pc = "compare"
    /\ checks' = [ accountMatches |-> accountMatches(PROMPTPAY_ID, merchantTemplate(tlv)),
                   amountMatches  |-> amountMatches(Lookup(amountOfTlv, payload), total),
                   currency       |-> currencyOf(tlv),
                   currencyOK     |-> currencyOK(currencyOf(tlv)) ]
    /\ pc' = "verdict"
    /\ UNCHANGED << db, cart, total, shippingAddressId, slipFile, payload, crc, tlv,
                    slipStatus, slipReason, calls, thrown >>
    /\ UNCHANGED notHandlerVars

Verdict ==
    /\ pc = "verdict"
    /\ IF verified(crc.ok, checks.accountMatches, checks.amountMatches, checks.currencyOK)
       THEN /\ slipStatus' = "VERIFIED_PRELIM"
            /\ UNCHANGED slipReason
       ELSE /\ slipStatus' = "REVIEW"
            /\ slipReason' = Json(crc.ok, checks.accountMatches, checks.amountMatches,
                                  checks.currency)
    /\ pc' = "tx"
    /\ UNCHANGED << db, cart, total, shippingAddressId, slipFile, payload, crc, tlv,
                    checks, calls, thrown >>
    /\ UNCHANGED notHandlerVars

\* a catch clause that rethrows to the outer handler
catchTarget_Rethrow == "error"

\* a catch clause that leaves the status as it was initialised
catchStatus_Unset == "PENDING"

\* where control goes when the inner try block raises: the catch clause
catchTarget == "tx"

catchStatus == "REVIEW"

catchReason == Text("QR decode error")

\* catch (_e) { REVIEW, 'QR decode error' }: an exception raised by verifyCRC,
\* parseEMV or the extraction and comparison of the fields
SlipCatch ==
    /\ \/ pc = "shape" /\ ShapeOK(payload)
       \/ pc \in { "parse", "compare" }
    /\ thrown' = TRUE
    /\ slipStatus' = catchStatus
    /\ slipReason' = catchReason
    /\ pc' = catchTarget
    /\ UNCHANGED << db, cart, total, shippingAddressId, slipFile, payload, crc, tlv,
                    checks, calls >>
    /\ UNCHANGED notHandlerVars

\* every cart line is covered by the product's stock
\* the stock check also demanding a VERIFIED_PRELIM slip
StockSufficient_VerifiedOnly ==
    /\ \A k \in 1..Len(cart) : stockQty[cart[k].id] >= cart[k].qty
    /\ slipStatus = "VERIFIED_PRELIM"

StockSufficient == \A k \in 1..Len(cart) : stockQty[cart[k].id] >= cart[k].qty

\* the data of tx.order.create for a request: cart c, total t, slip file f,
\* shipping address a; the row gets the next id
orderData(id, c, t, f, a) ==
    [ id |-> id,
      status |-> "PENDING",
      totalCents |-> toCents(t),
      paymentSlipUrl |-> f,
      shippingAddressId |-> a,
      items |-> [ k \in 1..Len(c) |->
                    [ productId |-> c[k].id, qty |-> c[k].qty,
                      unitPriceCents |-> toCents(c[k].price) ] ] ]

\* prisma.$transaction: stock check passed, the order is created as PENDING
CreateOrder ==
    /\ pc = "tx"
    /\ StockSufficient
    /\ orders' = Append(orders,
                        orderData(Len(orders) + 1, cart, total, slipFile,
                                  shippingAddressId))
    /\ pc' = "log"
    /\ UNCHANGED << PROMPTPAY_ID, stockQty, activityLog, cart, total, shippingAddressId,
                    slipFile, slipLocals >>
    /\ UNCHANGED notHandlerVars

\* the transaction throws (stock too low): the outer catch renders 400
StockError ==
    /\ pc = "tx"
    /\ ~StockSufficient
    /\ pc' = "error"
    /\ UNCHANGED << db, cart, total, shippingAddressId, slipFile, slipLocals >>
    /\ UNCHANGED notHandlerVars

\* addLog('order', 'created', id, '... [slip=STATUS|REASON]'), then the cart is emptied
AddLog ==
    /\ pc = "log"
    /\ activityLog' = Append(activityLog,
                             [ type |-> "order", action |-> "created",
                               refId |-> Len(orders),
                               slip |-> slipStatus, reason |-> slipReason ])
    /\ cart' = << >>
    /\ pc' = "done"
    /\ UNCHANGED << PROMPTPAY_ID, stockQty, orders, total, shippingAddressId, slipFile,
                    slipLocals >>
    /\ UNCHANGED notHandlerVars

Next ==
    \/ Request
    \/ AddressAccepted
    \/ AddressRejected
    \/ NoSlip
    \/ DecodeQR
    \/ ShapeReject
    \/ RunVerifyCRC
    \/ RunParseEMV
    \/ Compare
    \/ Verdict
    \/ SlipCatch
    \/ CreateOrder
    \/ StockError
    \/ AddLog

Spec == Init /\ [][Next]_vars

\* a request being handled: every await of the handler settles and its
\* continuation runs; new requests need not arrive.  Every step of the
\* handler moves pc, so the fairness condition is stated on pc.
HandlerStep ==
    \/ AddressAccepted
    \/ AddressRejected
    \/ NoSlip
    \/ DecodeQR
    \/ ShapeReject
    \/ RunVerifyCRC
    \/ RunParseEMV
    \/ Compare
    \/ Verdict
    \/ SlipCatch
    \/ CreateOrder
    \/ StockError
    \/ AddLog

FairSpec == Init /\ [][Next]_vars /\ WF_pc(HandlerStep)

-----------------------------------------------------------------------------
(* Direct calls of parseEMV and verifyCRC: the argument is drawn from       *)
(* EmvInputs, then each function is applied to it                           *)

MaxFields == 2

MaxHexLen == 3

\* a field of a generated text: tag, value and, for a template, the fields
\* the value was assembled from
Leaf(tag, val) == [ tag |-> tag, val |-> val, kids |-> << >> ]

RECURSIVE Encode(_)
\* tag + 2-digit length + value, for each field in order
Encode(fields) ==
    IF fields = << >> THEN << >>
    ELSE Field(Head(fields).tag, Head(fields).val) \o Encode(Tail(fields))

Tpl(tag, kids) == [ tag |-> tag, val |-> Encode(kids), kids |-> kids ]

FlatTags == { << "0","0" >>, << "5","4" >>, << "5","8" >>, << "9","9" >> }

FlatValues ==
    { << >>, << "7" >>, << "0","1","0","2" >>,
      << "A","B","C","D","E","F","0","1","2","3","4" >> }

Leaves == { Leaf(t, v) : t \in FlatTags, v \in FlatValues }

\* all sequences of at most n elements of S
SeqsUpTo(S, n) == UNION { [ 1..k -> S ] : k \in 0..n }

Account == Leaf(<< "0","1" >>, ExpectedId)

Guid == Leaf(<< "0","0" >>, << "A","0","1" >>)

\* templates under every composite tag, one and two levels deep
Templates ==
    { Tpl(t, k) : t \in CompositeTags,
                  k \in { << >>, << Account >>, << Guid, Account >> } }
    \cup { Tpl(t, << Guid, Tpl(u, << Account >>) >>) :
             t \in { << "2","6" >>, << "2","9" >> }, u \in CompositeTags }

T29Account == Tpl(<< "2","9" >>, << Account >>)

TemplateSeqs ==
    { << t >> : t \in Templates }
    \cup { << Leaf(<< "5","4" >>, << "7" >>), t, Leaf(<< "5","8" >>, << "7" >>) >> :
             t \in { T29Account, Tpl(<< "3","2" >>, << Guid, Account >>) } }
    \cup { << T29Account, Tpl(<< "2","9" >>, << Guid >>) >>,
           << Tpl(<< "2","9" >>, << Guid >>), T29Account >>,
           << T29Account, Leaf(<< "2","9" >>, << >>) >> }

FieldSeqs == SeqsUpTo(Leaves, MaxFields) \cup TemplateSeqs

\* every prefix of a text
Prefixes(t) == { SubSeq(t, 1, k) : k \in 0..Len(t) }

\* texts cut short, with a length field that is not two digits, or with an
\* odd character left over
BrokenTexts ==
    Prefixes(Encode(<< Leaf(<< "5","4" >>, << "0","1","0","2" >>),
                       Leaf(<< "5","8" >>, << "7","6","4" >>) >>))
    \cup Prefixes(Encode(<< Tpl(<< "2","9" >>, << Guid, Account >>) >>))
    \cup { << "5","4","A","1","x","y","z" >>,
           << "5","4","1","A","x","y","z","z" >>,
           << "5","4","0","1","x","5" >>,
           << "2","9","0","1","5" >>,
           << "5","4","9","9","x","y" >> }

HexSample == { "0", "3", "F", "a" }

\* hex data of at most MaxHexLen characters
HexData == UNION { [ 1..k -> HexSample ] : k \in 0..MaxHexLen }

\* texts around the CRC trailer: a matching, lower-case, wrong, short or
\* missing checksum, two markers, no marker
CrcTexts ==
    { WithCRC(d) : d \in HexData }
    \cup { WithLowerCRC(d) : d \in { << >>, << "F","a" >> } }
    \cup { WithWrongCRC(d) : d \in { << >>, << "F","a" >> } }
    \cup { WithShortCRC(d) : d \in { << >>, << "F","a" >> } }
    \cup { d \o CrcMarker : d \in { << >>, << "F","a" >>, << "6","3","0" >> } }
    \cup { WithCRC(CrcMarker \o << "0","0" >>), WithCRC(<< "x","y" >>),
           WithCRC(<< "5","4","0","4","6","3","0","4" >>),
           WithCRC(<< "5","4","0","2","6","3","0","4","0","2","0","A" >>),
           << "6","3","0" >>, << "6","3","0","0","4" >>,
           << "3","1","3","2","3","3","3","4","3","5","3","6","3","7","3","8","3","9" >> }

UpperAlphabet ==
    << "A","B","C","D","E","F","G","H","I","J","K","L","M",
       "N","O","P","Q","R","S","T","U","V","W","X","Y","Z" >>

LowerAlphabet ==
    << "a","b","c","d","e","f","g","h","i","j","k","l","m",
       "n","o","p","q","r","s","t","u","v","w","x","y","z" >>

\* the character code of a digit or a letter
Ascii(c) ==
    IF IsDigit(c) THEN 48 + DigitVal(c)
    ELSE IF c \in { UpperAlphabet[k] : k \in 1..26 }
    THEN 64 + (CHOOSE k \in 1..26 : UpperAlphabet[k] = c)
    ELSE 96 + (CHOOSE k \in 1..26 : LowerAlphabet[k] = c)

\* bit k (0 = lowest) of a 16-bit register flipped
FlipBit(r, k) ==
    IF (r \div Pow2[k + 1]) % 2 = 1 THEN r - Pow2[k + 1] ELSE r + Pow2[k + 1]

\* CRC-16/CCITT-FALSE as a serial shift register: one message bit b enters,
\* the register shifts left, and x^12 + x^5 + 1 is added when the bit
\* shifted out differs from b
RefCrcBit(r, b) ==
    LET out     == (r \div 32768) % 2
        shifted == (2 * r) % 65536
    IN  IF out # b THEN FlipBit(FlipBit(FlipBit(shifted, 12), 5), 0) ELSE shifted

\* the bits 7..k of a byte enter, most significant first
RECURSIVE RefCrcByte(_, _, _)
RefCrcByte(r, byte, k) ==
    IF k < 0 THEN r
    ELSE LET r1 == RefCrcBit(r, (byte \div Pow2[k + 1]) % 2)
         IN  IF r1 >= 0 THEN RefCrcByte(r1, byte, k - 1) ELSE r1

RECURSIVE RefCrcFrom(_, _)
RefCrcFrom(r, bytes) ==
    IF bytes = << >> THEN r
    ELSE LET r1 == RefCrcByte(r, Head(bytes), 7)
         IN  IF r1 >= 0 THEN RefCrcFrom(r1, Tail(bytes)) ELSE r1

\* initial value 0xFFFF, no final exclusive or
RefCrc(bytes) == RefCrcFrom(65535, bytes)

\* four upper-case hex digits
Hex4(c) ==
    << HexDigits[((c \div 4096) % 16) + 1], HexDigits[((c \div 256) % 16) + 1],
       HexDigits[((c \div 16) % 16) + 1], HexDigits[(c % 16) + 1] >>

\* the bytes an EMVCo QR generator checksums: the character codes
AsciiBytes(t) == [ k \in 1..Len(t) |-> Ascii(t[k]) ]

\* a QR text as a generator emits it: fields, then 6304 and the checksum of
\* the characters up to and including 6304
EmvcoText(fields) ==
    LET body == Encode(fields) \o CrcMarker
    IN  body \o Hex4(RefCrc(AsciiBytes(body)))

\* a PromptPay merchant QR: format, point of initiation, tag 29 with the
\* application id and the mobile number, country, currency
PromptPaySample ==
    << Leaf(<< "0","0" >>, << "0","1" >>),
       Leaf(<< "0","1" >>, << "1","1" >>),
       Tpl(<< "2","9" >>,
           << Leaf(<< "0","0" >>,
                   << "A","0","0","0","0","0","0","6","7","7","0","1","0","1","1","1" >>),
              Leaf(<< "0","1" >>,
                   << "0","0","6","6","8","1","2","3","4","5","6","7","8" >>) >>),
       Leaf(<< "5","8" >>, << "T","H" >>),
       Leaf(<< "5","3" >>, << "7","6","4" >>) >>

\* the same without the template and the country: hex characters only
HexOnlySample ==
    << Leaf(<< "0","0" >>, << "0","1" >>),
       Leaf(<< "0","1" >>, << "1","1" >>),
       Leaf(<< "5","3" >>, << "7","6","4" >>) >>

EmvcoTexts == { EmvcoText(PromptPaySample), EmvcoText(HexOnlySample) }

\* the arguments of the calls: texts generated from fields, and raw texts
EmvInputs ==
    { [ built |-> TRUE, fields |-> f, text |-> Encode(f) ] : f \in FieldSeqs }
    \cup { [ built |-> FALSE, fields |-> << >>, text |-> t ] :
             t \in BrokenTexts \cup CrcTexts \cup EmvcoTexts }

\* the handler is idle; an argument is chosen
EmvInit ==
    /\ PROMPTPAY_ID = << >>
    /\ stockQty = [ p \in Products |-> 1 ]
    /\ orders = << >>
    /\ activityLog = << >>
    /\ pc = "idle"
    /\ cart = << >>
    /\ total = 0
    /\ shippingAddressId = 0
    /\ slipFile = FALSE
    /\ payload = Null
    /\ crc = Undefined
    /\ tlv = Undefined
    /\ checks = Undefined
    /\ slipStatus = "PENDING"
    /\ slipReason = NoReason
    /\ calls = {}
    /\ thrown = FALSE
    /\ emvIn \in EmvInputs
    /\ emvOut = NotCalled
    /\ emvCrc = NotCalled
    /\ history = << >>
    /\ stack = << >>
    /\ stockMovements = << >>
    /\ approvals = << >>
    /\ adminCount = 0
    /\ SseIdle

\* parseEMV(s)
CallParseEMV ==
    /\ ~emvOut.called
    /\ emvOut' = Returned(parseEMV(emvIn.text))
    /\ UNCHANGED << emvIn, emvCrc >>
    /\ UNCHANGED notEmvVars

\* verifyCRC(payload)
CallVerifyCRC ==
    /\ ~emvCrc.called
    /\ emvCrc' = Returned(verifyCRC(emvIn.text))
    /\ UNCHANGED << emvIn, emvOut >>
    /\ UNCHANGED notEmvVars

EmvNext ==
    \/ CallParseEMV
    \/ CallVerifyCRC

EmvSpec == EmvInit /\ [][EmvNext]_vars

-----------------------------------------------------------------------------
(* A series of calls of parseEMV and verifyCRC on several arguments, in any *)
(* order                                                                    *)

MaxCalls == 3

\* no request is being handled and nothing is configured
HandlerIdle ==
    /\ PROMPTPAY_ID = << >>
    /\ stockQty = [ p \in Products |-> 1 ]
    /\ orders = << >>
    /\ activityLog = << >>
    /\ pc = "idle"
    /\ cart = << >>
    /\ total = 0
    /\ shippingAddressId = 0
    /\ slipFile = FALSE
    /\ payload = Null
    /\ crc = Undefined
    /\ tlv = Undefined
    /\ checks = Undefined
    /\ slipStatus = "PENDING"
    /\ slipReason = NoReason
    /\ calls = {}
    /\ thrown = FALSE

\* no direct call is under way
EmvIdle == emvIn = NoInput /\ emvOut = NotCalled /\ emvCrc = NotCalled

\* the arguments of the series
CallArgs ==
    { << >>,
      Encode(<< Leaf(<< "5","4" >>, << "7" >>) >>),
      Encode(<< T29Account >>),
      << "5","4","A","1","x","y","z" >>,
      WithCRC(<< "F","a" >>),
      WithWrongCRC(<< "F","a" >>) }

\* the object of the latest parseEMV call of the series, used again
out0_Kept ==
    LET done == { k \in 1..Len(history) : history[k].fn = "parseEMV" }
    IN  IF done = {} THEN EmptyMap
        ELSE history[CHOOSE k \in done : \A j \in done : j <= k].tlv

\* const out = {} : a new object in every call
out0 == EmptyMap

NoTlv == << >>

NoCrc == [ ok |-> FALSE, expected |-> Null, actual |-> Null ]

CallsInit ==
    /\ HandlerIdle
    /\ EmvIdle
    /\ history = << >>
    /\ stack = << >>
    /\ stockMovements = << >>
    /\ approvals = << >>
    /\ adminCount = 0
    /\ SseIdle

\* parseEMV(p), one more call of the series
SeriesParseEMV ==
    /\ Len(history) < MaxCalls
    /\ \E p \in CallArgs :
           history' = Append(history, [ fn |-> "parseEMV", arg |-> p,
                                        tlv |-> parseLoop(p, 0, out0),
                                        crc |-> NoCrc ])
    /\ UNCHANGED notCallVars

\* verifyCRC(p), one more call of the series
SeriesVerifyCRC ==
    /\ Len(history) < MaxCalls
    /\ \E p \in CallArgs :
           history' = Append(history, [ fn |-> "verifyCRC", arg |-> p,
                                        tlv |-> NoTlv,
                                        crc |-> verifyCRC(p) ])
    /\ UNCHANGED notCallVars

CallsNext ==
    \/ SeriesParseEMV
    \/ SeriesVerifyCRC

CallsSpec == CallsInit /\ [][CallsNext]_vars

-----------------------------------------------------------------------------
(* parseEMV followed pass by pass: one step per pass of the while loop,     *)
(* one frame per call that has not returned                                 *)

\* texts with a sign in a length field, at the top level and in a template
SignedTexts ==
    { << "X","X","-","4" >>,
      << "5","4","-","4","a","b" >>,
      << "5","4","-","1","a","b" >>,
      << "5","4","-","2","a","b" >>,
      << "5","4","-","3","a","b" >>,
      << "5","4","-","0","a","b" >>,
      << "5","4","+","2","a","b","5","8","0","1","c" >>,
      << "5","4","0","2","a","b","5","8","-","8" >>,
      << "5","4","0","2","a","b","5","8","-","9" >>,
      << "2","9","0","8","X","X","-","4","a","b","c","d" >>,
      << "2","9","0","4","5","4","-","1","5","8","0","1","c" >> }

LoopInputs ==
    { [ built |-> FALSE, fields |-> << >>, text |-> t ] :
        t \in BrokenTexts \cup SignedTexts
              \cup { Encode(f) : f \in TemplateSeqs } }

\* a call of parseEMV(s) at its entry: const out = {}; let i = 0; no pass
\* of the loop made yet
Frame(s) ==
    [ s |-> s, at |-> NaN, i |-> Num(0), out |-> out0,
      pending |-> FALSE, tag |-> << >>, raw |-> << >> ]

\* the loop test i < s.length
Looping(f) == ~f.i.nan /\ f.i.v < Len(f.s)

\* tag, len, val and the cursor after them, for the pass that starts at i
passTag(f) == slice(f.s, f.i.v, f.i.v + 2)

passLen(f) == parseInt10(slice(f.s, f.i.v + 2, f.i.v + 4))

passVal(f) ==
    IF passLen(f).nan THEN << >>
    ELSE slice(f.s, f.i.v + 4, f.i.v + 4 + passLen(f).v)

\* i += 2; i += 2; i += len
passEnd(f) ==
    IF passLen(f).nan THEN NaN ELSE Num(f.i.v + 4 + passLen(f).v)

Top == stack[Len(stack)]

LoopInit ==
    /\ HandlerIdle
    /\ emvIn \in LoopInputs
    /\ emvOut = NotCalled
    /\ emvCrc = NotCalled
    /\ history = << >>
    /\ stack = << >>
    /\ stockMovements = << >>
    /\ approvals = << >>
    /\ adminCount = 0
    /\ SseIdle

\* parseEMV(emvIn.text) is called
LoopCall ==
    /\ ~emvOut.called
    /\ stack = << >>
    /\ stack' = << Frame(emvIn.text) >>
    /\ UNCHANGED emvVars
    /\ UNCHANGED notLoopVars

\* a pass of the loop for a tag outside the composite list
PassPlain ==
    /\ stack # << >>
    /\ ~Top.pending
    /\ Looping(Top)
    /\ passTag(Top) \notin CompositeTags
    /\ stack' = [ stack EXCEPT ![Len(stack)] =
                    [ Top EXCEPT !.at = Top.i, !.i = passEnd(Top),
                                 !.out = Put(Top.out, passTag(Top),
                                             StringNode(passVal(Top))) ] ]
    /\ UNCHANGED emvVars
    /\ UNCHANGED notLoopVars

\* a pass for a composite tag, up to the call parseEMV(val)
PassComposite ==
    /\ stack # << >>
    /\ ~Top.pending
    /\ Looping(Top)
    /\ passTag(Top) \in CompositeTags
    /\ stack' = [ stack EXCEPT ![Len(stack)] =
                    [ Top EXCEPT !.at = Top.i, !.i = passEnd(Top),
                                 !.out = Put(Top.out, passTag(Top),
                                             StringNode(passVal(Top))),
                                 !.pending = TRUE, !.tag = passTag(Top),
                                 !.raw = passVal(Top) ] ]
               \o << Frame(passVal(Top)) >>
    /\ UNCHANGED emvVars
    /\ UNCHANGED notLoopVars

\* the loop of a nested call ends: return out, stored as sub by the caller
ReturnNested ==
    /\ Len(stack) > 1
    /\ ~Top.pending
    /\ ~Looping(Top)
    /\ stack' = [ k \in 1..(Len(stack) - 1) |->
                    IF k < Len(stack) - 1 THEN stack[k]
                    ELSE [ stack[k] EXCEPT
                             !.out = Put(stack[k].out, stack[k].tag,
                                         ObjectNode(stack[k].raw, Top.out)),
                             !.pending = FALSE ] ]
    /\ UNCHANGED emvVars
    /\ UNCHANGED notLoopVars

\* the loop of the outermost call ends: return out
ReturnOuter ==
    /\ Len(stack) = 1
    /\ ~Top.pending
    /\ ~Looping(Top)
    /\ emvOut' = Returned(Top.out)
    /\ stack' = << >>
    /\ UNCHANGED << emvIn, emvCrc >>
    /\ UNCHANGED notLoopVars

LoopStep ==
    \/ PassPlain
    \/ PassComposite
    \/ ReturnNested
    \/ ReturnOuter

LoopNext ==
    \/ LoopCall
    \/ LoopStep

LoopSpec == LoopInit /\ [][LoopNext]_vars

-----------------------------------------------------------------------------
(* The shop: a session that fills its cart and checks out without a slip,   *)
(* and the admin requests on orders and stock                               *)

MaxAdmin == 2

MaxQty == 2

\* the session of the customer and the locals of its checkout request
session == << pc, cart, total, shippingAddressId, slipFile, slipLocals >>

ShopInit ==
    /\ HandlerIdle
    /\ EmvIdle
    /\ history = << >>
    /\ stack = << >>
    /\ stockMovements = << >>
    /\ approvals = << >>
    /\ adminCount = 0
    /\ SseIdle

\* cart.find((i) => i.id === product.id)
exist(c, p) == { k \in 1..Len(c) : c[k].id = p }

already(c, p) == IF exist(c, p) = {} THEN 0 ELSE c[CHOOSE k \in exist(c, p) : TRUE].qty

\* inStock - already
canAdd(c, p) == stockQty[p] - already(c, p)

\* exist.qty += addQty, or cart.push({ id, price, qty: addQty, ... })
cartAfterAdd(c, p, addQty) ==
    IF exist(c, p) # {}
    THEN [ k \in 1..Len(c) |->
             IF c[k].id = p THEN [ c[k] EXCEPT !.qty = @ + addQty ] ELSE c[k] ]
    ELSE Append(c, [ id |-> p, qty |-> addQty, price |-> priceCents[p] ])

\* POST /cart/add: refused with 400 when nothing or less than addQty can be added
CartAdd ==
    /\ pc \in Terminal
    /\ \E p \in Products, addQty \in 1..MaxQty :
           cart' = IF canAdd(cart, p) <= 0 \/ addQty > canAdd(cart, p)
                   THEN cart
                   ELSE cartAfterAdd(cart, p, addQty)
    /\ UNCHANGED << db, pc, total, shippingAddressId, slipFile, slipLocals >>
    /\ UNCHANGED notHandlerVars

\* POST /checkout with the session cart and no slip file
Checkout == RequestWith(cart, FALSE)

\* an ActivityLog row written by addLog(type, action, refId, message)
logRow(type, action, refId) == [ type |-> type, action |-> action, refId |-> refId ]

\* the reason of a StockMovement row: ORDER #id (approve), or the admin's text
orderReason(id) == [ order |-> id ]

NoOrderReason == [ order |-> 0 ]

\* POST /admin/orders/:id/payment/approve, up to the order read by findUnique
ApproveRead ==
    /\ adminCount < MaxAdmin
    /\ \E id \in 1..Len(orders) : approvals' = Append(approvals, orders[id])
    /\ adminCount' = adminCount + 1
    /\ UNCHANGED stockMovements
    /\ UNCHANGED handlerVars
    /\ UNCHANGED notShopVars

\* the quantity of product p in the items of an order
RECURSIVE qtyOf(_, _)
qtyOf(items, p) ==
    IF items = << >> THEN 0
    ELSE (IF Head(items).productId = p THEN Head(items).qty ELSE 0)
         + qtyOf(Tail(items), p)

\* tx.stockMovement.create for each item of the order
movementsOf(o) ==
    [ k \in 1..Len(o.items) |->
        [ productId |-> o.items[k].productId, change |-> 0 - o.items[k].qty,
          reason |-> orderReason(o.id) ] ]

\* if (order.status !== 'PAID'), on the order as it was read
mustDecrement(o) == o.status # "PAID"

\* the rest of payment/approve: the transaction when the order read was not
\* PAID, then addLog
ApproveCommit ==
    /\ \E k \in 1..Len(approvals) :
         LET o == approvals[k]
         IN  /\ IF mustDecrement(o)
                THEN /\ stockQty' = [ p \in Products |->
                                        stockQty[p] - qtyOf(o.items, p) ]
                     /\ stockMovements' = stockMovements \o movementsOf(o)
                     /\ orders' = [ orders EXCEPT ![o.id] =
                                      [ @ EXCEPT !.status = "PAID" ] ]
                ELSE UNCHANGED << stockQty, stockMovements, orders >>
             /\ activityLog' = Append(activityLog,
                                      logRow("order", "payment_approved", o.id))
             /\ approvals' = [ j \in 1..(Len(approvals) - 1) |->
                                 IF j < k THEN approvals[j] ELSE approvals[j + 1] ]
    /\ UNCHANGED << PROMPTPAY_ID, adminCount, session >>
    /\ UNCHANGED notShopVars

\* POST /admin/orders/:id/payment/reject
Reject ==
    /\ adminCount < MaxAdmin
    /\ \E id \in 1..Len(orders) :
         /\ orders' = [ orders EXCEPT ![id] = [ @ EXCEPT !.status = "PENDING" ] ]
         /\ activityLog' = Append(activityLog,
                                  logRow("order", "payment_rejected", id))
    /\ adminCount' = adminCount + 1
    /\ UNCHANGED << PROMPTPAY_ID, stockQty, stockMovements, approvals, session >>
    /\ UNCHANGED notShopVars

allowed == { "PENDING", "PAID", "SHIPPED", "CANCELLED" }

\* the status field of the form: an allowed one, or another
StatusInputs == allowed \cup { "REFUNDED" }

\* POST /admin/orders/:id/status: 400 for a status outside allowed
SetStatus ==
    /\ adminCount < MaxAdmin
    /\ \E id \in 1..Len(orders), status \in StatusInputs :
         IF status \notin allowed
         THEN UNCHANGED << orders, activityLog >>
         ELSE /\ orders' = [ orders EXCEPT ![id] = [ @ EXCEPT !.status = status ] ]
              /\ activityLog' = Append(activityLog,
                                       logRow("order", "status_changed", id))
    /\ adminCount' = adminCount + 1
    /\ UNCHANGED << PROMPTPAY_ID, stockQty, stockMovements, approvals, session >>
    /\ UNCHANGED notShopVars

\* POST /admin/products/:id/stock: delta = action === 'remove' ? -amount : amount
StockAdjust ==
    /\ adminCount < MaxAdmin
    /\ \E id \in Products, remove \in BOOLEAN, amount \in 1..MaxQty :
         LET delta == IF remove THEN 0 - amount ELSE amount
         IN  /\ stockQty' = [ stockQty EXCEPT ![id] = @ + delta ]
             /\ stockMovements' = Append(stockMovements,
                                         [ productId |-> id, change |-> delta,
                                           reason |-> NoOrderReason ])
             /\ activityLog' = Append(activityLog,
                                      logRow("stock",
                                             IF delta > 0 THEN "increase" ELSE "decrease",
                                             id))
    /\ adminCount' = adminCount + 1
    /\ UNCHANGED << PROMPTPAY_ID, orders, approvals, session >>
    /\ UNCHANGED notShopVars

ShopNext ==
    \/ CartAdd
    \/ Checkout
    \/ AddressAccepted
    \/ AddressRejected
    \/ NoSlip
    \/ CreateOrder
    \/ StockError
    \/ AddLog
    \/ ApproveRead
    \/ ApproveCommit
    \/ Reject
    \/ SetStatus
    \/ StockAdjust

ShopSpec == ShopInit /\ [][ShopNext]_vars

-----------------------------------------------------------------------------
(* Server-sent events: GET /api/products/stock/stream and                   *)
(* GET /api/orders/status/stream, the close of a connection, the broadcasts *)

SseInit ==
    /\ HandlerIdle
    /\ EmvIdle
    /\ history = << >>
    /\ stack = << >>
    /\ stockMovements = << >>
    /\ approvals = << >>
    /\ adminCount = 0
    /\ SseIdle

\* a stream request arrives: headers are sent (orders: after the ids test)
\* and the initial fetch is awaited; an order stream without ids gets 400
StreamRequest ==
    /\ \E c \in Clients, kind \in { "stock", "orders" }, ids \in BOOLEAN :
         /\ conns[c].at = "none"
         /\ conns' = [ conns EXCEPT ![c] =
                         [ kind |-> kind,
                           at |-> IF kind = "orders" /\ ~ids THEN "done" ELSE "fetch",
                           open |-> TRUE, onClose |-> FALSE, late |-> FALSE ] ]
    /\ UNCHANGED << sseClients, sseOrderClients >>
    /\ UNCHANGED notSseVars

\* the initial fetch of a stock stream settles: sseSend(res, init), the
\* client is added to sseClients, the close listener is registered
StockFetched ==
    /\ \E c \in Clients, failed \in BOOLEAN :
         /\ conns[c].at = "fetch"
         /\ conns[c].kind = "stock"
         /\ IF failed
            THEN /\ conns' = [ conns EXCEPT ![c].at = "done" ]
                 /\ UNCHANGED sseClients
            ELSE /\ conns' = [ conns EXCEPT ![c].at = "live",
                                            ![c].onClose = TRUE ]
                 /\ sseClients' = sseClients \cup { c }
    /\ UNCHANGED sseOrderClients
    /\ UNCHANGED notSseVars

\* the same for an order-status stream; a failed fetch gets 500
OrdersFetched ==
    /\ \E c \in Clients, failed \in BOOLEAN :
         /\ conns[c].at = "fetch"
         /\ conns[c].kind = "orders"
         /\ IF failed
            THEN /\ conns' = [ conns EXCEPT ![c].at = "done" ]
                 /\ UNCHANGED sseOrderClients
            ELSE /\ conns' = [ conns EXCEPT ![c].at = "live",
                                            ![c].onClose = TRUE ]
                 /\ sseOrderClients' = sseOrderClients \cup { c }
    /\ UNCHANGED sseClients
    /\ UNCHANGED notSseVars

\* the connection closes: 'close' is emitted once, to the listeners
\* registered by then
ConnectionClose ==
    /\ \E c \in Clients :
         /\ conns[c].open
         /\ conns' = [ conns EXCEPT ![c].open = FALSE ]
         /\ IF conns[c].onClose
            THEN /\ sseClients' = sseClients \ { c }
                 /\ sseOrderClients' = sseOrderClients \ { c }
            ELSE UNCHANGED << sseClients, sseOrderClients >>
    /\ UNCHANGED notSseVars

\* the clients of a registry written to by a broadcast whose batch
\* concerns the clients in hit; late marks a write to a closed connection
written(registry, hit) ==
    [ c \in Clients |->
        IF c \in registry /\ c \in hit /\ ~conns[c].open
        THEN [ conns[c] EXCEPT !.late = TRUE ]
        ELSE conns[c] ]

\* broadcastStocksForIds(ids)
BroadcastStocks ==
    /\ sseClients # {}
    /\ \E hit \in SUBSET Clients : conns' = written(sseClients, hit)
    /\ UNCHANGED << sseClients, sseOrderClients >>
    /\ UNCHANGED notSseVars

\* broadcastOrdersForIds(ids)
BroadcastOrders ==
    /\ sseOrderClients # {}
    /\ \E hit \in SUBSET Clients : conns' = written(sseOrderClients, hit)
    /\ UNCHANGED << sseClients, sseOrderClients >>
    /\ UNCHANGED notSseVars

SseNext ==
    \/ StreamRequest
    \/ StockFetched
    \/ OrdersFetched
    \/ ConnectionClose
    \/ BroadcastStocks
    \/ BroadcastOrders

SseSpec == SseInit /\ [][SseNext]_vars

-----------------------------------------------------------------------------
(* Properties of the slip check of POST /checkout                           *)

\* the slip-verification block has run
AfterSlip == pc \in { "tx", "log", "done", "error" }

\* decodeQR has returned for the slip of this request
Decoded == slipFile /\ pc \in { "shape", "parse", "compare", "verdict",
                                "tx", "log", "done", "error" }

\* accountMatches, amountMatches, currency and currencyOK have been computed
Compared == slipFile /\ checks # Undefined

HexAlphabet == { "0","1","2","3","4","5","6","7","8","9",
                 "A","B","C","D","E","F","a","b","c","d","e","f" }

\* falsy, or some character outside [0-9A-Fa-f]
InvalidShape(p) ==
    \/ p = Null
    \/ p = << >>
    \/ { k \in 1..Len(p) : p[k] \notin HexAlphabet } # {}

\* s contains needle at some offset
Contains(s, needle) ==
    { k \in 1..(Len(s) - Len(needle) + 1) :
        SubSeq(s, k, k + Len(needle) - 1) = needle } # {}

Tag26 == << "2","6" >>

Tag29 == << "2","9" >>

Tag54 == << "5","4" >>

Tag58 == << "5","8" >>

\* the mapping of the merchant template: tag 29's, or tag 26's when 29 is absent
TemplateFields(t) ==
    IF Tag29 \in DOMAIN t THEN t[Tag29].sub
    ELSE IF Tag26 \in DOMAIN t THEN t[Tag26].sub
    ELSE EmptyMap

\* |amount - total| < 0.01 for the decimal string v and a total in cents
AmountWithin(v, totalCents) ==
    LET a == Number(v)
    IN  /\ ~a.nan
        /\ Abs(100 * a.num - totalCents * Pow10(a.scale)) < Pow10(a.scale)

\* |amount - total| = 0.50
AmountOffByHalf(v, totalCents) ==
    LET a == Number(v)
    IN  /\ ~a.nan
        /\ Abs(100 * a.num - totalCents * Pow10(a.scale)) = 50 * Pow10(a.scale)

AcceptedCurrencies == { << "T","H" >>, << "T","H","B" >>, << "7","6","4" >> }

\* C1: for a payload that passed the shape check (and no exception was
\* raised), the status is VERIFIED_PRELIM iff crc.ok, the account match, the
\* amount match and the currency match all hold; otherwise it is REVIEW.
\* crc is the result of verifyCRC on the payload (compared when the slip
\* block completes; nothing assigns crc or payload after that).
C1_VerdictIffAllChecks ==
    (AfterSlip /\ slipFile /\ ~InvalidShape(payload) /\ ~thrown) =>
        /\ pc = "tx" => crc = verifyCRC(payload)
        /\ Compared
        /\ (slipStatus = "VERIFIED_PRELIM") <=>
              ( /\ crc.ok
                /\ checks.accountMatches = "true"
                /\ checks.amountMatches
                /\ checks.currencyOK )
        /\ slipStatus \in { "VERIFIED_PRELIM", "REVIEW" }

C1_Witness ==
    /\ pc = "tx" /\ slipFile /\ ~thrown
    /\ slipStatus = "VERIFIED_PRELIM"
    /\ PROMPTPAY_ID = ExpectedId
    /\ Tag54 \in DOMAIN tlv /\ tlv[Tag54].raw = << "1","0","0" >>
    /\ Tag58 \in DOMAIN tlv /\ tlv[Tag58].raw = << "7","6","4" >>
    /\ crc.ok

\* C2: once the slip block has run, on every path, the status is
\* VERIFIED_PRELIM or REVIEW, never the initial PENDING or anything else.
C2_StatusIsVerdict ==
    AfterSlip => slipStatus \in { "VERIFIED_PRELIM", "REVIEW" }

C2_Witness == pc = "tx" /\ thrown /\ slipStatus = "REVIEW"

\* C3: a payload that is falsy or holds a character outside [0-9A-Fa-f]
\* gives REVIEW with reason "QR not found or invalid", raises nothing, and
\* neither verifyCRC nor parseEMV runs on it.
C3_InvalidPayloadRejected ==
    (Decoded /\ InvalidShape(payload)) =>
        /\ calls = {}
        /\ ~thrown
        /\ pc \notin { "parse", "compare", "verdict" }
        /\ AfterSlip => /\ slipStatus = "REVIEW"
                        /\ slipReason = Text("QR not found or invalid")

C3_Witness ==
    /\ pc = "tx" /\ slipFile
    /\ payload \notin { Null, << >> }
    /\ InvalidShape(payload)
    /\ Tag58 \in DOMAIN parseEMV(payload)

\* C4 (as claimed): a payload with a correct CRC, a template value containing
\* the expected account id, an amount within tolerance and tag 58 = "THB"
\* gives VERIFIED_PRELIM.
C4_Scenario1Verified ==
    ( /\ AfterSlip /\ slipFile /\ ~thrown
      /\ payload # Null
      /\ PROMPTPAY_ID # << >>
      /\ verifyCRC(payload).ok
      /\ LET t == parseEMV(payload)
         IN  /\ \E k \in DOMAIN TemplateFields(t) :
                   Contains(TemplateFields(t)[k].raw, PROMPTPAY_ID)
             /\ Tag54 \in DOMAIN t /\ AmountWithin(t[Tag54].raw, total)
             /\ Tag58 \in DOMAIN t /\ t[Tag58].raw = << "T","H","B" >> )
    => slipStatus = "VERIFIED_PRELIM"

\* C5 (as claimed): a payload with a correct CRC whose tag-54 amount is 0.50
\* away from the total gives REVIEW, the reason being the serialized check
\* record with amountMatches false.
C5_Scenario2Reason ==
    ( /\ AfterSlip /\ slipFile /\ ~thrown
      /\ payload # Null
      /\ verifyCRC(payload).ok
      /\ LET t == parseEMV(payload)
         IN  Tag54 \in DOMAIN t /\ AmountOffByHalf(t[Tag54].raw, total) )
    => /\ slipStatus = "REVIEW"
       /\ slipReason.kind = "json"
       /\ slipReason.amountMatches = FALSE

\* C6 (as claimed): with a correct CRC and tags 54, 58, 29 and 26 all absent
\* the verdict is VERIFIED_PRELIM, also when an expected account id is set.
C6_AbsentFieldsVerified ==
    ( /\ AfterSlip /\ slipFile /\ ~thrown
      /\ payload # Null
      /\ verifyCRC(payload).ok
      /\ DOMAIN parseEMV(payload) \cap { Tag54, Tag58, Tag29, Tag26 } = {} )
    => slipStatus = "VERIFIED_PRELIM"

\* C7 (as claimed): with an expected id configured the account check is true
\* iff some field of the merchant template, under any sub-tag whatsoever,
\* holds a value containing the id; with none configured it is true.
C7_AnySubTag ==
    Compared =>
        IF PROMPTPAY_ID = << >> THEN checks.accountMatches = "true"
        ELSE (checks.accountMatches = "true") <=>
               \E k \in DOMAIN TemplateFields(tlv) :
                   Contains(TemplateFields(tlv)[k].raw, PROMPTPAY_ID)

\* C7 (amended): ... iff some field of the merchant template under a sub-tag
\* that is not itself a template tag (26..32) holds a value containing the
\* id; the value of a nested template is never searched.
C7_PlainSubTag ==
    Compared =>
        IF PROMPTPAY_ID = << >> THEN checks.accountMatches = "true"
        ELSE (checks.accountMatches = "true") <=>
               \E k \in DOMAIN TemplateFields(tlv) :
                   /\ k \notin CompositeTags
                   /\ Contains(TemplateFields(tlv)[k].raw, PROMPTPAY_ID)

\* the id is found in tag 26 because tag 29 is absent
C7_Witness ==
    /\ Compared /\ pc = "verdict"
    /\ PROMPTPAY_ID # << >>
    /\ Tag29 \notin DOMAIN tlv
    /\ Tag26 \in DOMAIN tlv
    /\ checks.accountMatches = "true"

\* C8 (as claimed): the currency check passes exactly when tag 58 is absent,
\* empty or one of TH, THB, 764 (upper-cased), and a payload carrying an
\* accepted code reaches the check and passes it.
C8_CurrencyAccepted ==
    /\ Compared =>
          (checks.currencyOK <=>
             \/ Tag58 \notin DOMAIN tlv
             \/ tlv[Tag58].raw = << >>
             \/ toUpperCase(tlv[Tag58].raw) \in AcceptedCurrencies)
    /\ ( /\ AfterSlip /\ slipFile /\ ~thrown
         /\ payload # Null
         /\ Tag58 \in DOMAIN parseEMV(payload)
         /\ toUpperCase(parseEMV(payload)[Tag58].raw) \in AcceptedCurrencies )
       => (Compared /\ checks.currencyOK)

\* C9 (as claimed): with tag 54 present the amount check holds iff the value,
\* read as a number, is less than 0.01 away from the total; with tag 54
\* absent it holds.
C9_AmountPresent ==
    Compared =>
        IF Tag54 \in DOMAIN tlv
        THEN checks.amountMatches <=> AmountWithin(tlv[Tag54].raw, total)
        ELSE checks.amountMatches

\* C9 (amended): with tag 54 present and its value not empty the amount
\* check holds iff the value, read as a number, is less than 0.01 away from
\* the total; with tag 54 absent or empty it holds.
C9_AmountNonEmpty ==
    Compared =>
        IF Tag54 \in DOMAIN tlv /\ tlv[Tag54].raw # << >>
        THEN checks.amountMatches <=> AmountWithin(tlv[Tag54].raw, total)
        ELSE checks.amountMatches

\* the amount is exactly 0.01 away from the total and the check fails
C9_Witness ==
    /\ Compared /\ pc = "verdict"
    /\ Tag54 \in DOMAIN tlv
    /\ tlv[Tag54].raw = << "1","0","0" >>
    /\ total = 10001
    /\ ~checks.amountMatches

\* C10: an exception raised by verifyCRC, parseEMV or the extraction and
\* comparison ends in REVIEW with reason "QR decode error" and the handler
\* goes on to the transaction; the outer error path is taken only when the
\* stock check fails.
C10_ExceptionCaught ==
    thrown =>
        /\ AfterSlip
        /\ slipStatus = "REVIEW"
        /\ slipReason = Text("QR decode error")
        /\ pc = "error" => ~StockSufficient

C10_Witness == thrown /\ pc = "done" /\ Len(orders) = 1

\* every cart line is covered by the stock on hand
CartInStock == \A k \in 1..Len(cart) : stockQty[cart[k].id] >= cart[k].qty

\* C11: under FairSpec, a request that reaches the slip step always gets a
\* verdict and goes on to the transaction; there the order is created
\* whenever the cart is in stock, whatever the verdict, and the error page
\* is rendered only when the stock is short.
C11_NeverBlocks ==
    /\ (pc = "slip") ~> (pc = "log" \/ (pc = "error" /\ ~CartInStock))
    /\ [](pc \in { "tx", "log" } => slipStatus \in { "VERIFIED_PRELIM", "REVIEW" })
    /\ [](pc = "log" => orders # << >>)

\* an order was created from a slip whose payload failed a check
C11_Witness ==
    /\ pc = "log" /\ slipFile
    /\ orders # << >>
    /\ slipStatus = "REVIEW"
    /\ slipReason.kind = "json"

\* C12 (as claimed): the order row created from a REVIEW slip differs from
\* the row the same request (cart, total, address, slip file) persists
\* whatever its verdict, i.e. the verdict is part of the order record.
C12_VerdictOnOrder ==
    (pc = "log" /\ slipFile /\ slipStatus = "REVIEW") =>
        orders[Len(orders)] # orderData(Len(orders), cart, total, slipFile,
                                        shippingAddressId)

-----------------------------------------------------------------------------
(* Properties of parseEMV and verifyCRC                                     *)

\* the template tags 26 .. 32
TemplateTags ==
    { << "2","6" >>, << "2","7" >>, << "2","8" >>, << "2","9" >>,
      << "3","0" >>, << "3","1" >>, << "3","2" >> }

TagsOf(fields) == { fields[k].tag : k \in 1..Len(fields) }

DistinctTags(fields) ==
    \A j, k \in 1..Len(fields) : fields[j].tag = fields[k].tag => j = k

IsFlat(fields) == \A k \in 1..Len(fields) : fields[k].tag \notin TemplateTags

\* no tag repeats at any level of the generated fields
RECURSIVE DistinctDeep(_)
DistinctDeep(fields) ==
    /\ DistinctTags(fields)
    /\ \A k \in 1..Len(fields) : DistinctDeep(fields[k].kids)

LastIndex(fields, tag) ==
    CHOOSE k \in 1..Len(fields) :
        /\ fields[k].tag = tag
        /\ \A j \in (k + 1)..Len(fields) : fields[j].tag # tag

\* what the claims expect for generated fields: a plain string, or for a
\* template tag { raw, sub } with the mapping of the fields inside
RECURSIVE ExpectedNode(_)
RECURSIVE Expected(_)
ExpectedNode(f) ==
    IF f.tag \in TemplateTags
    THEN [ type |-> "object", raw |-> f.val, sub |-> Expected(f.kids) ]
    ELSE [ type |-> "string", raw |-> f.val, sub |-> << >> ]

Expected(fields) ==
    [ t \in TagsOf(fields) |-> ExpectedNode(fields[LastIndex(fields, t)]) ]

\* C13: for generated flat fields with distinct non-template tags, parseEMV
\* of tag + 2-digit length + value returns exactly those tags, each mapped
\* to its value as a plain string.
C13_FlatRoundTrip ==
    ( /\ emvIn.built /\ emvOut.called
      /\ IsFlat(emvIn.fields) /\ DistinctTags(emvIn.fields) ) =>
        /\ DOMAIN emvOut.result = TagsOf(emvIn.fields)
        /\ \A k \in 1..Len(emvIn.fields) :
              emvOut.result[emvIn.fields[k].tag] =
                  [ type |-> "string", raw |-> emvIn.fields[k].val, sub |-> << >> ]

\* two fields, one with an empty value and one with a two-digit length
C13_Witness ==
    /\ emvIn.built /\ emvOut.called
    /\ Len(emvIn.fields) = 2
    /\ IsFlat(emvIn.fields) /\ DistinctTags(emvIn.fields)
    /\ emvIn.fields[1].val = << >>
    /\ Len(emvIn.fields[2].val) > 9
    /\ Len(emvOut.result[emvIn.fields[2].tag].raw) > 9

\* every entry is { raw, sub } under a template tag and a plain string under
\* any other, at every level
RECURSIVE Shaped(_)
Shaped(m) ==
    \A t \in DOMAIN m :
        IF t \in TemplateTags
        THEN m[t].type = "object" /\ Shaped(m[t].sub)
        ELSE m[t].type = "string" /\ m[t].sub = << >>

\* C14: every tag 26..32, at any nesting level, is stored as { raw, sub }
\* with raw the value and sub the mapping of the fields inside it, every
\* other tag as the plain value; a tag 29 holding sub-tag 01 = accountId
\* gives parsed["29"].sub["01"] = accountId.
C14_CompositeExpansion ==
    emvOut.called =>
        /\ Shaped(emvOut.result)
        /\ (emvIn.built /\ DistinctDeep(emvIn.fields)) =>
               emvOut.result = Expected(emvIn.fields)
        /\ (emvIn.built /\ emvIn.fields = << T29Account >>) =>
               emvOut.result[<< "2","9" >>].sub[<< "0","1" >>].raw = ExpectedId

\* the account id two templates deep, under 29 then 32
C14_Witness ==
    /\ emvIn.built /\ emvOut.called
    /\ << "2","9" >> \in DOMAIN emvOut.result
    /\ << "3","2" >> \in DOMAIN emvOut.result[<< "2","9" >>].sub
    /\ emvOut.result[<< "2","9" >>].sub[<< "3","2" >>].type = "object"
    /\ << "0","1" >> \in DOMAIN emvOut.result[<< "2","9" >>].sub[<< "3","2" >>].sub
    /\ emvOut.result[<< "2","9" >>].sub[<< "3","2" >>].sub[<< "0","1" >>].raw = ExpectedId

DigitChars == { "0","1","2","3","4","5","6","7","8","9" }

\* a length field of two decimal digits, and the number it declares
TwoDigits(f) == Len(f) = 2 /\ f[1] \in DigitChars /\ f[2] \in DigitChars

Declared(f) ==
    10 * (CHOOSE d \in 0..9 : DecDigits[d + 1] = f[1])
    + (CHOOSE d \in 0..9 : DecDigits[d + 1] = f[2])

\* the two characters after the tag of the pass that starts at cursor at,
\* or as many as the text has
LengthField(t, at) == SubSeq(t, at + 3, Min(at + 4, Len(t)))

\* the characters after the length field, to the end of the text
Rest(t, at) == SubSeq(t, at + 5, Len(t))

\* the texts parsed at any level: the text and, recursively, the value of
\* every field with a template tag
RECURSIVE LevelsOf(_)
LevelsOf(t) ==
    LET st == parseSteps(t, 0)
    IN  { t } \cup UNION { LevelsOf(st[k].val) :
                             k \in { j \in 1..Len(st) : st[j].tag \in TemplateTags } }

\* every stored value is the value of some pass over the text
StoredFromSteps(m, st) ==
    \A tag \in DOMAIN m : \E k \in 1..Len(st) : st[k].tag = tag /\ st[k].val = m[tag].raw

RECURSIVE AllKeysTwo(_)
AllKeysTwo(m) == \A t \in DOMAIN m : Len(t) = 2 /\ AllKeysTwo(m[t].sub)

\* C16 (as claimed): every key of the mapping, at every level, has exactly
\* two characters; a single character left at the cursor adds no entry.
C16_KeysTwoChars == emvOut.called => AllKeysTwo(emvOut.result)

\* C17: a tag that occurs more than once at one level has one entry, the
\* value (or template node) of its last occurrence.
C17_LastOccurrenceWins ==
    (emvIn.built /\ emvOut.called) =>
        /\ DOMAIN emvOut.result = TagsOf(emvIn.fields)
        /\ \A t \in TagsOf(emvIn.fields) :
              /\ emvOut.result[t].raw = emvIn.fields[LastIndex(emvIn.fields, t)].val
              /\ emvOut.result[t] = ExpectedNode(emvIn.fields[LastIndex(emvIn.fields, t)])

\* tag 29 twice with different templates: the second one is kept
C17_Witness ==
    /\ emvIn.built /\ emvOut.called
    /\ Len(emvIn.fields) = 2
    /\ emvIn.fields[1].tag = << "2","9" >>
    /\ emvIn.fields[2].tag = << "2","9" >>
    /\ emvIn.fields[1].val # emvIn.fields[2].val
    /\ emvOut.result[<< "2","9" >>].raw = emvIn.fields[2].val
    /\ << "0","1" >> \in DOMAIN emvOut.result[<< "2","9" >>].sub

\* C18: without the substring 6304 verifyCRC returns exactly
\* { ok: false, expected: null, actual: null }; with it, expected is a
\* string, never null.
C18_MissingMarker ==
    emvCrc.called =>
        IF ~Contains(emvIn.text, << "6","3","0","4" >>)
        THEN emvCrc.result = [ ok |-> FALSE, expected |-> Null, actual |-> Null ]
        ELSE emvCrc.result.expected # Null /\ Len(emvCrc.result.expected) = 4

\* 63004 holds 630 and 04 but not 6304
C18_Witness ==
    /\ emvCrc.called
    /\ emvIn.text = << "6","3","0","0","4" >>
    /\ emvCrc.result.expected = Null
    /\ ~emvCrc.result.ok

\* the position where the first 6304 ends
FirstMarkerEnd(t) ==
    3 + CHOOSE k \in 1..(Len(t) - 3) :
            /\ SubSeq(t, k, k + 3) = << "6","3","0","4" >>
            /\ \A j \in 1..(k - 1) : SubSeq(t, j, j + 3) # << "6","3","0","4" >>

HexCode(c) == CHOOSE v \in 0..15 : c = HexDigits[v + 1] \/ c = HexDigitsLower[v + 1]

IsHexText(t) == \A k \in 1..Len(t) : t[k] \in HexAlphabet

\* hex text read as bytes, two characters each; a single last character
\* is a byte of its own
HexPairBytes(h) ==
    [ k \in 1..((Len(h) + 1) \div 2) |->
        IF 2 * k <= Len(h) THEN 16 * HexCode(h[2 * k - 1]) + HexCode(h[2 * k])
        ELSE HexCode(h[2 * k - 1]) ]

\* C19: for a hex prefix up to and including 6304, expected is the
\* CRC-16/CCITT-FALSE (0x1021, initial 0xFFFF, no final XOR, MSB first) of
\* the prefix read as hex pairs; the bytes 31..39 give 29B1.
C19_ReferenceCrc ==
    /\ (emvCrc.called /\ Contains(emvIn.text, << "6","3","0","4" >>)
          /\ IsHexText(SubSeq(emvIn.text, 1, FirstMarkerEnd(emvIn.text)))) =>
           emvCrc.result.expected =
               Hex4(RefCrc(HexPairBytes(SubSeq(emvIn.text, 1, FirstMarkerEnd(emvIn.text)))))
    /\ emvCrc.called =>
           toUpperCase(crc16ccitt(
               << "3","1","3","2","3","3","3","4","3","5","3","6","3","7","3","8","3","9" >>))
             = << "2","9","B","1" >>

\* three hex characters, the marker and the matching checksum
C19_Witness ==
    /\ emvCrc.called
    /\ Len(emvIn.text) = 11
    /\ SubSeq(emvIn.text, 4, 7) = << "6","3","0","4" >>
    /\ emvIn.text[1] = "F"
    /\ emvCrc.result.ok

\* the text ends in 6304 and the checksum an EMVCo generator appends: the
\* CRC-16/CCITT-FALSE of the characters before it
EmvcoGood(t) ==
    /\ Len(t) >= 8
    /\ SubSeq(t, Len(t) - 7, Len(t) - 4) = << "6","3","0","4" >>
    /\ SubSeq(t, Len(t) - 3, Len(t)) = Hex4(RefCrc(AsciiBytes(SubSeq(t, 1, Len(t) - 4))))

\* C20 (as claimed): for a payload whose last four characters are the
\* EMVCo checksum of what precedes, verifyCRC returns ok with expected
\* equal to actual.
C20_KnownGoodVerified ==
    (emvCrc.called /\ EmvcoGood(emvIn.text)) =>
        /\ emvCrc.result.ok
        /\ emvCrc.result.expected = emvCrc.result.actual

\* the text with character k replaced by c
ReplaceAt(t, k, c) == [ t EXCEPT ![k] = c ]

\* the positions before the first 6304 that hold a hex character
HexPositions(t) ==
    { k \in 1..(FirstMarkerEnd(t) - 4) : t[k] \in HexAlphabet }

\* C21 (as claimed): when verifyCRC returns ok, replacing one hex character
\* before the marker by a different hex character changes expected, and
\* verifyCRC returns not ok on the modified payload.
C21_Sensitivity ==
    (emvCrc.called /\ emvCrc.result.ok) =>
        \A k \in HexPositions(emvIn.text) :
            \A c \in HexAlphabet \ { emvIn.text[k] } :
                LET r == verifyCRC(ReplaceAt(emvIn.text, k, c))
                IN  /\ r.expected # emvCrc.result.expected
                    /\ ~r.ok

\* the checksummed prefix, up to and including the first 6304, has an odd
\* number of characters
OddPrefix(t) ==
    Contains(t, << "6","3","0","4" >>) /\ FirstMarkerEnd(t) % 2 = 1

\* C22 (as claimed): verifyCRC returns a result for every string, and the
\* result is not ok when the marker is missing and when the checksummed
\* prefix has an odd number of characters.
C22_AnomalyNotOk ==
    emvCrc.called =>
        /\ emvCrc.result.ok \in BOOLEAN
        /\ ~Contains(emvIn.text, << "6","3","0","4" >>) => ~emvCrc.result.ok
        /\ OddPrefix(emvIn.text) => ~emvCrc.result.ok

C24_CursorAdvances ==
    \A d \in 1..Len(stack) :
        /\ stack[d].at.nan \/ ~Looping(stack[d]) \/ stack[d].i.v > stack[d].at.v
        /\ d > 1 => Len(stack[d].s) < Len(stack[d - 1].s)

\* the length position of the latest pass of a call
LengthPosition(f) == slice(f.s, f.at.v + 2, f.at.v + 4)

\* what the latest pass of a call stored
StoredByPass(f) == f.out[slice(f.s, f.at.v, f.at.v + 2)]

\* C25 (as claimed): after a pass whose length position does not begin
\* with a decimal digit, the tag is stored with an empty value and the loop
\* of that call is over; a length position of a digit and a non-digit is
\* read as that digit.
C25_NonDigitLength ==
    \A d \in 1..Len(stack) :
        LET f == stack[d]
        IN  ~f.at.nan =>
              /\ (LengthPosition(f) = << >> \/ ~IsDigit(LengthPosition(f)[1])) =>
                     /\ StoredByPass(f).raw = << >>
                     /\ StoredByPass(f).sub = EmptyMap
                     /\ ~Looping(f)
              /\ (Len(LengthPosition(f)) = 2 /\ IsDigit(LengthPosition(f)[1])
                    /\ ~IsDigit(LengthPosition(f)[2])) =>
                     f.i = Num(f.at.v + 4 + DigitVal(LengthPosition(f)[1]))

\* the characters after the first 6304, four at most
AfterMarker(t) == SubSeq(t, FirstMarkerEnd(t) + 1, Min(FirstMarkerEnd(t) + 4, Len(t)))

\* 6304 occurs again after its first occurrence
TwoMarkers(t) ==
    /\ Contains(t, << "6","3","0","4" >>)
    /\ Contains(SubSeq(t, FirstMarkerEnd(t) - 2, Len(t)), << "6","3","0","4" >>)

\* C26: with 6304 in the payload, wherever it first occurs, expected is the
\* checksum of the prefix that ends with the first occurrence, actual is
\* the characters that follow it (upper-cased), and ok compares the two.
C26_FirstMarker ==
    (emvCrc.called /\ Contains(emvIn.text, << "6","3","0","4" >>)) =>
        LET prefix == SubSeq(emvIn.text, 1, FirstMarkerEnd(emvIn.text))
        IN  /\ emvCrc.result.expected = toUpperCase(crc16ccitt(prefix))
            /\ IsHexText(prefix) =>
                   emvCrc.result.expected = Hex4(RefCrc(HexPairBytes(prefix)))
            /\ emvCrc.result.actual = toUpperCase(AfterMarker(emvIn.text))
            /\ emvCrc.result.ok <=>
                   (toUpperCase(AfterMarker(emvIn.text)) = toUpperCase(crc16ccitt(prefix)))

\* an earlier 6304 inside a value, and a trailing CRC field that is right for
\* the whole text: judged against the earlier one
C26_Witness ==
    /\ emvCrc.called
    /\ emvIn.text = WithCRC(<< "5","4","0","4","6","3","0","4" >>)
    /\ TwoMarkers(emvIn.text)
    /\ FirstMarkerEnd(emvIn.text) = 8
    /\ emvCrc.result.actual = << "6","3","0","4" >>
    /\ ~emvCrc.result.ok

\* 6304 made of the end of the value of field 54 and the header of field 04
C26_Straddling ==
    /\ emvCrc.called
    /\ emvIn.text = WithCRC(<< "5","4","0","2","6","3","0","4","0","2","0","A" >>)
    /\ FirstMarkerEnd(emvIn.text) = 8
    /\ emvCrc.result.actual = << "0","2","0","A" >>
    /\ ~emvCrc.result.ok

\* how many characters follow the first 6304
Following(t) == Len(t) - FirstMarkerEnd(t)

UpperHex == { HexDigits[k] : k \in 1..16 }

\* C27: with the marker present, expected is four upper-case hex
\* characters; actual is a string, the upper-cased characters after the
\* marker, four of them or as many as there are; with fewer than four the
\* result is not ok.
C27_FourHexExpected ==
    (emvCrc.called /\ Contains(emvIn.text, << "6","3","0","4" >>)) =>
        /\ Len(emvCrc.result.expected) = 4
        /\ \A k \in 1..4 : emvCrc.result.expected[k] \in UpperHex
        /\ emvCrc.result.actual # Null
        /\ Len(emvCrc.result.actual) = Min(4, Following(emvIn.text))
        /\ Following(emvIn.text) < 4 =>
               /\ emvCrc.result.actual =
                      toUpperCase(SubSeq(emvIn.text, FirstMarkerEnd(emvIn.text) + 1,
                                         Len(emvIn.text)))
               /\ ~emvCrc.result.ok

\* two characters follow the marker, and the checksum begins with 0
C27_Witness ==
    /\ emvCrc.called
    /\ Contains(emvIn.text, << "6","3","0","4" >>)
    /\ Following(emvIn.text) = 2
    /\ Len(emvCrc.result.actual) = 2
    /\ emvCrc.result.expected[1] = "0"
    /\ ~emvCrc.result.ok

\* the StockMovement rows recorded for an item of an order
MovementsFor(id, p) ==
    { k \in 1..Len(stockMovements) :
        stockMovements[k].reason = orderReason(id) /\ stockMovements[k].productId = p }

\* C28 (as claimed): whatever approve, reject and status requests were
\* made and however they interleaved, each item of each order has at most
\* one stock movement, and the stock taken for the order is at most the
\* quantity ordered.
C28_DecrementOnce ==
    \A id \in 1..Len(orders) : \A k \in 1..Len(orders[id].items) :
        LET p == orders[id].items[k].productId
        IN  /\ Cardinality(MovementsFor(id, p)) <= 1
            /\ \A m \in MovementsFor(id, p) :
                   stockMovements[m].change = 0 - orders[id].items[k].qty

\* C29 (as claimed): after any cart additions, checkouts, approvals and
\* stock adjustments, no product has a negative stockQty.
C29_StockNonNegative == \A p \in Products : stockQty[p] >= 0

\* C30 (as claimed): no broadcast is written to a client whose connection
\* has closed, whenever the close came, also during the initial fetch: by
\* then the client has left the registry.
C30_NoBroadcastAfterClose == \A c \in Clients : ~conns[c].late

====
